---- MODULE Spec2Model ----
(***************************************************************************)
(* Model of the TVC simulator session (tvc3d_gui_v2.py, TVCMainWindow):    *)
(* the vehicle state, the captured run commands, the sliders, the two      *)
(* timers, the run log and the handlers that act on them.                  *)
(*                                                                         *)
(* Reals are fixed-point integers:                                         *)
(*   position          1e-5 m          velocity        1e-3 m/s            *)
(*   acceleration      1e-3 m/s^2      force, thrust   1 N                 *)
(*   quaternion, trig  1e-4            angles          1e-4 rad            *)
(*   mass              1 kg            time            1e-2 s (one dt)     *)
(*   slider values are the integers the widgets hold.                      *)
(***************************************************************************)
EXTENDS Integers, Sequences, FiniteSets, TLC

\* ------------------------------------------------------------------ bounds
\* UI events explored in one run of the program.
MaxOps == 5
\* Ticks recorded in one run log (between two Resets).
MaxTicks == 3
\* Staging events recorded between two Resets.
MaxStages == 2

\* Timer ticks of the long recording.
MaxLogTicks == 42

\* -------------------------------------------------------- program constants
\* self.dt = 0.01 s, as a denominator: dt = 1 / DtDen.
DtDen == 100
\* Gimbal sliders: setRange(-600, 600), tenths of a degree.
GimbalSliderMin == -600
GimbalSliderMax == 600
\* Throttle slider: setRange(0, 100), percent.
ThrottleSliderMin == 0
ThrottleSliderMax == 100
\* Trail slider: setRange(10, 5000), setValue(1000).
TrailSliderMin == 10
TrailSliderMax == 5000
TrailDefault == 1000
\* Minimum throttle fraction, percent: max(0.2, throttle).
MinThrottlePct == 20
\* Stage separation drops 10 kg.
StageMassDrop == 10
\* Hard impact: altitude <= 0.1 m (1e-5 m units), speed > 5 m/s (1e-3 m/s units).
ImpactAlt == 10000
ImpactSpeed == 5000
\* Fixed-point scale of quaternion components and trigonometric values.
Unit == 10000
\* cos(2.5 deg) and sin(2.5 deg): half of the 5 degree initial tilt.
CosHalfTilt == 9990
SinHalfTilt == 436

\* TVC3DSim configuration (tvc3d is not part of the sources; values chosen
\* for the model): base thrust in N, initial mass in kg, gravity in 1e-3 m/s^2.
SimT0 == 4500
mass0 == 15
Gravity == 9810

\* ------------------------------------------------------------- arithmetic
Abs(x) == IF x < 0 THEN -x ELSE x

\* Division rounded to the nearest integer, symmetric around zero.
RoundDiv(a, b) ==
  IF a >= 0 THEN (2 * a + b) \div (2 * b) ELSE -((2 * (-a) + b) \div (2 * b))

Max(a, b) == IF a >= b THEN a ELSE b
Min(a, b) == IF a <= b THEN a ELSE b

Zero3 == <<0, 0, 0>>

Dot3(a, b) == a[1] * b[1] + a[2] * b[2] + a[3] * b[3]

RECURSIVE SqrtIter(_, _)
SqrtIter(n, x) ==
  LET y == (x + n \div x) \div 2
  IN IF y >= x THEN x ELSE SqrtIter(n, y)

\* Integer square root (floor), Newton's iteration.
ISqrt(n) == IF n <= 0 THEN 0 ELSE SqrtIter(n, n)

\* r or r + 1, whichever is nearer to the square root of n, for r = ISqrt(n).
NearestRoot(n, r) == IF n - r * r > r THEN r + 1 ELSE r

\* Square root rounded to the nearest integer.
RSqrt(n) == NearestRoot(n, ISqrt(n))

\* --------------------------------------------------------- QuaternionMath
\* Quaternions are <<w, x, y, z>>, scalar first (state[6] holds the scalar).

\* Hamilton product of two quaternions, fixed point.
QuatMul(p, q) ==
  << RoundDiv(p[1]*q[1] - p[2]*q[2] - p[3]*q[3] - p[4]*q[4], Unit),
     RoundDiv(p[1]*q[2] + p[2]*q[1] + p[3]*q[4] - p[4]*q[3], Unit),
     RoundDiv(p[1]*q[3] - p[2]*q[4] + p[3]*q[1] + p[4]*q[2], Unit),
     RoundDiv(p[1]*q[4] + p[2]*q[3] - p[3]*q[2] + p[4]*q[1], Unit) >>

\* Squared norm of a quaternion, in Unit^2.
QuatNormSq(q) == q[1]*q[1] + q[2]*q[2] + q[3]*q[3] + q[4]*q[4]

\* q / n for the norm n, the identity quaternion when the norm is zero.
QuatScale(q, n) ==
  IF n = 0 THEN <<Unit, 0, 0, 0>>
  ELSE << RoundDiv(q[1] * Unit, n), RoundDiv(q[2] * Unit, n),
          RoundDiv(q[3] * Unit, n), RoundDiv(q[4] * Unit, n) >>

\* normalize(q): q / |q|.
QuatNormalize(q) == QuatScale(q, RSqrt(QuatNormSq(q)))

\* rotate(q, v): the vector v of the body frame in the inertial frame.
quat_rotate(q, v) ==
  LET w == q[1]  x == q[2]  y == q[3]  z == q[4]
      r11 == Unit - RoundDiv(2 * (y*y + z*z), Unit)
      r12 == RoundDiv(2 * (x*y - w*z), Unit)
      r13 == RoundDiv(2 * (x*z + w*y), Unit)
      r21 == RoundDiv(2 * (x*y + w*z), Unit)
      r22 == Unit - RoundDiv(2 * (x*x + z*z), Unit)
      r23 == RoundDiv(2 * (y*z - w*x), Unit)
      r31 == RoundDiv(2 * (x*z - w*y), Unit)
      r32 == RoundDiv(2 * (y*z + w*x), Unit)
      r33 == Unit - RoundDiv(2 * (x*x + y*y), Unit)
  IN << RoundDiv(r11*v[1] + r12*v[2] + r13*v[3], Unit),
        RoundDiv(r21*v[1] + r22*v[2] + r23*v[3], Unit),
        RoundDiv(r31*v[1] + r32*v[2] + r33*v[3], Unit) >>

\* ------------------------------------------------------------ trigonometry
\* math.radians(v / 10.0) for a slider value v in tenths of a degree,
\* in 1e-4 rad: v * pi / 1800.
Radians(v) == RoundDiv(v * 31416, 18000)

\* sin and cos of the angles the sliders of the model can hold, in 1e-4:
\* 0, 40, 60 and 70 degrees.
SinTable(a) ==
  CASE a = 0 -> 0
    [] a = Radians(400) -> 6428
    [] a = Radians(600) -> 8660
    [] a = Radians(700) -> 9397

CosTable(a) ==
  CASE a = 0 -> Unit
    [] a = Radians(400) -> 7660
    [] a = Radians(600) -> 5000
    [] a = Radians(700) -> 3420

Sin(a) == IF a < 0 THEN -SinTable(-a) ELSE SinTable(a)
Cos(a) == CosTable(Abs(a))

\* -------------------------------------------------------------- ThrustModel
\* Mutant of ThrustBody: the x component with the sign of sin(gx).
ThrustBodyPlusX(gx, gy, T) ==
  << RoundDiv(Sin(gx) * T, Unit),
     RoundDiv(Sin(gy) * T, Unit),
     RoundDiv(RoundDiv(Cos(gx) * Cos(gy), Unit) * T, Unit) >>

\* Thrust in the body frame for gimbal angles gx, gy and thrust T:
\* (-sin(gx) T, sin(gy) T, cos(gx) cos(gy) T).
ThrustBody(gx, gy, T) ==
  << -RoundDiv(Sin(gx) * T, Unit),
     RoundDiv(Sin(gy) * T, Unit),
     RoundDiv(RoundDiv(Cos(gx) * Cos(gy), Unit) * T, Unit) >>

\* ------------------------------------------------------- RigidBodyDynamics
\* The vehicle state: np.zeros(14) = position, velocity, quaternion,
\* angular velocity, mass.
VehicleState(pos, vel, q, w, mass) ==
  [pos |-> pos, vel |-> vel, q |-> q, w |-> w, mass |-> mass]

\* Acceleration by the inertial force F on the mass m, plus gravity on z.
Accel(F, m) ==
  << IF m = 0 THEN 0 ELSE RoundDiv(F[1] * 1000, m),
     IF m = 0 THEN 0 ELSE RoundDiv(F[2] * 1000, m),
     (IF m = 0 THEN 0 ELSE RoundDiv(F[3] * 1000, m)) - Gravity >>

\* dq/dt = 0.5 q (x) [0, w], from the product qw = q (x) [0, w].
QuatRate(qw) ==
  <<RoundDiv(qw[1], 2), RoundDiv(qw[2], 2), RoundDiv(qw[3], 2), RoundDiv(qw[4], 2)>>

\* Time derivative of the state under the thrust T and gimbal (gx, gy):
\* thrust acts through the centre of mass (no torque, isotropic inertia) and
\* mass changes by staging only.
Deriv(s, gx, gy, T) ==
  [ pos |-> <<s.vel[1] * 100, s.vel[2] * 100, s.vel[3] * 100>>,
    vel |-> Accel(quat_rotate(s.q, ThrustBody(gx, gy, T)), s.mass),
    q   |-> QuatRate(QuatMul(s.q, <<0, s.w[1], s.w[2], s.w[3]>>)),
    w   |-> Zero3,
    mass |-> 0 ]

\* s + (num / den) * k, componentwise.
Axpy(s, k, num, den) ==
  LET a(x, d) == x + RoundDiv(d * num, den)
  IN [ pos  |-> <<a(s.pos[1], k.pos[1]), a(s.pos[2], k.pos[2]), a(s.pos[3], k.pos[3])>>,
       vel  |-> <<a(s.vel[1], k.vel[1]), a(s.vel[2], k.vel[2]), a(s.vel[3], k.vel[3])>>,
       q    |-> <<a(s.q[1], k.q[1]), a(s.q[2], k.q[2]), a(s.q[3], k.q[3]), a(s.q[4], k.q[4])>>,
       w    |-> <<a(s.w[1], k.w[1]), a(s.w[2], k.w[2]), a(s.w[3], k.w[3])>>,
       mass |-> a(s.mass, k.mass) ]

\* k1 + 2 k2 + 2 k3 + k4, componentwise.
RKSum(k1, k2, k3, k4) ==
  LET c(f(_)) == f(k1) + 2 * f(k2) + 2 * f(k3) + f(k4)
      p1(k) == k.pos[1]  p2(k) == k.pos[2]  p3(k) == k.pos[3]
      v1(k) == k.vel[1]  v2(k) == k.vel[2]  v3(k) == k.vel[3]
      q1(k) == k.q[1]  q2(k) == k.q[2]  q3(k) == k.q[3]  q4(k) == k.q[4]
      w1(k) == k.w[1]  w2(k) == k.w[2]  w3(k) == k.w[3]
      m(k) == k.mass
  IN [ pos  |-> <<c(p1), c(p2), c(p3)>>,
       vel  |-> <<c(v1), c(v2), c(v3)>>,
       q    |-> <<c(q1), c(q2), c(q3), c(q4)>>,
       w    |-> <<c(w1), c(w2), c(w3)>>,
       mass |-> c(m) ]

\* ----------------------------------------------------------- Integrator
\* The state after the step: the weighted sum applied, the quaternion
\* renormalized.
RKCombine(s, k1, k2, k3, k4) ==
  [ Axpy(s, RKSum(k1, k2, k3, k4), 1, 6 * DtDen)
      EXCEPT !.q = QuatNormalize(@) ]

RKStage4(s, gx, gy, T, k1, k2, k3) ==
  RKCombine(s, k1, k2, k3, Deriv(Axpy(s, k3, 1, DtDen), gx, gy, T))

RKStage3(s, gx, gy, T, k1, k2) ==
  RKStage4(s, gx, gy, T, k1, k2, Deriv(Axpy(s, k2, 1, 2 * DtDen), gx, gy, T))

RKStage2(s, gx, gy, T, k1) ==
  RKStage3(s, gx, gy, T, k1, Deriv(Axpy(s, k1, 1, 2 * DtDen), gx, gy, T))

\* sim.rk4_step(state, [gx, gy], dt) with sim.T = T: classical RK4, the four
\* stages at t, t + dt/2 (twice) and t + dt.  dt = 1 / DtDen.
rk4_step(s, gx, gy, T) == RKStage2(s, gx, gy, T, Deriv(s, gx, gy, T))

\* ------------------------------------------------------------ session state
VARIABLES
  gx_slider, gy_slider,      \* gimbal sliders, tenths of a degree
  throttle_slider,           \* percent
  trail_slider,              \* trail length, points
  running,                   \* self.running
  timer_active,              \* self.timer.isActive()
  start_btn,                 \* text of the Start/Pause button
  run_gimbal_x, run_gimbal_y,\* captured gimbal angles, 1e-4 rad
  run_throttle,              \* captured throttle fraction, in hundredths
  sim_T,                     \* self.sim.T, N
  has_base_T, base_T,        \* hasattr(self, 'base_T'), self.base_T
  state,                     \* self.state
  pos_hist,                  \* self.pos_hist
  run_log_states, run_log_times,
  stage_events,
  playback_timer_active, playback_index, playback_running, playback_btn,
  was_running,               \* "unset" until the first playback start
  pb_run0,                   \* history: self.running when playback last started
  run_finished, view_enabled,
  status_box,                \* kinds of message the status box shows
  tb_pred,                   \* body-frame predictive thrust drawn, <<>> if none
  max_altitude, max_velocity, total_distance, prev_pos,
  csv_file,                  \* rows of the last CSV written, header first
  table,                     \* rows of the last run-data dialog
  start_cmd,                 \* history: sliders at the last Start that set running
  stopped,                   \* history: Stop & Finalize pressed, Start not since
  last,                      \* history: the handler that ran last, and its call
  impacted,                  \* history: a tick since the last Reset was an impact
  recorded,                  \* history: tick number and state of every tick
                             \* since the last Reset
  nops                       \* history: UI events so far

sliders == <<gx_slider, gy_slider, throttle_slider, trail_slider>>
run_ctl == <<running, timer_active, start_btn>>
run_cmd == <<run_gimbal_x, run_gimbal_y, run_throttle, start_cmd, stopped>>
engine  == <<sim_T, has_base_T, base_T>>
logs    == <<run_log_states, run_log_times, impacted, recorded>>
playback == <<playback_timer_active, playback_index, playback_running,
              playback_btn, was_running, pb_run0>>
stats   == <<max_altitude, max_velocity, total_distance, prev_pos>>
outputs == <<csv_file, table>>

vars == <<sliders, run_ctl, run_cmd, engine, state, pos_hist, logs,
          stage_events, playback, run_finished, view_enabled, status_box,
          tb_pred, stats, outputs, last, nops>>

\* ------------------------------------------------------------------ inputs
\* Values a user drags the sliders to (the widget bounds them to its range).
GxMoves == {700}
GyMoves == {-700}
ThrottleMoves == {0}
TrailMoves == {10}

\* --------------------------------------------------------------- helpers
\* Mutant of SliderValue: the requested value taken as it is.
SliderValueUnbounded(lo, hi, v) == v

\* QSlider.setValue / a drag: the value bounded to the slider's range.
SliderValue(lo, hi, v) == Max(lo, Min(hi, v))

\* Initial attitude of the constructor: 5 degree tilt about the body X axis,
\* normalized.
InitQuat == QuatNormalize(<<CosHalfTilt, SinHalfTilt, 0, 0>>)

\* Mutant of ResetQuat: the half-angle components doubled.
ResetQuatDoubled == <<2 * CosHalfTilt, 0, 2 * SinHalfTilt, 0>>

\* Attitude written by Reset.
ResetQuat == <<CosHalfTilt, 0, SinHalfTilt, 0>>

\* State of the constructor.
InitState == VehicleState(Zero3, Zero3, InitQuat, Zero3, mass0)

\* State written by Reset.
ResetState == VehicleState(Zero3, Zero3, ResetQuat, Zero3, mass0)

\* np.linalg.norm of a 3-vector; a long vector is measured in hundreds of
\* units so that its squares stay within the integer range.
Norm3(v) ==
  IF Max(Abs(v[1]), Max(Abs(v[2]), Abs(v[3]))) <= 25000
    THEN RSqrt(Dot3(v, v))
    ELSE 100 * RSqrt(Dot3(<<RoundDiv(v[1], 100), RoundDiv(v[2], 100),
                            RoundDiv(v[3], 100)>>,
                          <<RoundDiv(v[1], 100), RoundDiv(v[2], 100),
                            RoundDiv(v[3], 100)>>))

\* norm(v) > lim, compared on the squares.
NormExceeds(v, lim) == Dot3(v, v) > lim * lim

\* What _draw_scene leaves in the status box (setPlainText replaces the text).
DrawnStatus == {"stat"}

\* status_box.setPlainText(stat) on a box that shows box.
SetPlainText(box) == DrawnStatus

\* The predictive thrust vector _draw_scene computes: from the current slider
\* values and sim.T, only when the simulation is not running.
DrawnThrust(run, gx, gy, T) ==
  IF run THEN <<>> ELSE ThrustBody(Radians(gx), Radians(gy), T)

\* _draw_scene at the end of a handler: it reads what the handler has written.
draw_scene(box) ==
  /\ status_box' = SetPlainText(box)
  /\ tb_pred' = DrawnThrust(running', gx_slider', gy_slider', sim_T')

\* Mutant of Row: the angular velocity written between attitude and mass.
RowWithOmega(t, st) ==
  << t, st.pos[1], st.pos[2], st.pos[3], st.vel[1], st.vel[2], st.vel[3],
     st.q[1], st.q[2], st.q[3], st.q[4], st.w[1], st.w[2], st.w[3], st.mass >>

\* One CSV / table row of a logged state: t, x, y, z, vx, vy, vz,
\* state[6:10], mass.
Row(t, st) ==
  << t, st.pos[1], st.pos[2], st.pos[3], st.vel[1], st.vel[2], st.vel[3],
     st.q[1], st.q[2], st.q[3], st.q[4], st.mass >>

Header == <<"t", "x", "y", "z", "vx", "vy", "vz", "qx", "qy", "qz", "qw", "mass">>

\* list[-n:] for n > 0.
LastN(seq, n) ==
  IF Len(seq) <= n THEN seq ELSE SubSeq(seq, Len(seq) - n + 1, Len(seq))

\* ----------------------------------------------------------------- Init
Init ==
  /\ gx_slider = 0 /\ gy_slider = 0
  /\ throttle_slider = 100
  /\ trail_slider = TrailDefault
  /\ running = FALSE /\ timer_active = FALSE /\ start_btn = "Start"
  /\ run_gimbal_x = 0 /\ run_gimbal_y = 0 /\ run_throttle = 100
  /\ sim_T = SimT0 /\ has_base_T = FALSE /\ base_T = 0
  /\ state = InitState
  /\ pos_hist = <<InitState.pos>>
  /\ run_log_states = <<>> /\ run_log_times = <<>>
  /\ stage_events = <<>>
  /\ playback_timer_active = FALSE /\ playback_index = 0
  /\ playback_running = FALSE /\ playback_btn = "Play Log"
  /\ was_running = "unset"
  /\ pb_run0 = FALSE
  /\ run_finished = FALSE /\ view_enabled = FALSE
  /\ status_box = SetPlainText({}) \cup {"welcome", "tip_presets"}
  /\ tb_pred = DrawnThrust(FALSE, 0, 0, SimT0)
  /\ max_altitude = 0 /\ max_velocity = 0 /\ total_distance = 0
  /\ prev_pos = Zero3
  /\ csv_file = <<>> /\ table = <<>>
  /\ start_cmd = <<0, 0, 100>>
  /\ stopped = FALSE
  /\ last = [op |-> "init"]
  /\ impacted = FALSE
  /\ recorded = <<>>
  /\ nops = 0

\* ------------------------------------------------------------ the sliders
\* valueChanged of the gimbal X slider: labels, then _draw_scene.
on_gx_changed(v) ==
  LET nv == SliderValue(GimbalSliderMin, GimbalSliderMax, v)
  IN /\ nv # gx_slider
     /\ gx_slider' = nv
     /\ last' = [op |-> "gx_slider"]
     /\ UNCHANGED <<gy_slider, throttle_slider, trail_slider, run_ctl, run_cmd,
                    engine, state, pos_hist, logs, stage_events, playback,
                    run_finished, view_enabled, stats, outputs>>
     /\ draw_scene(status_box)

\* valueChanged of the gimbal Y slider: labels, then _draw_scene.
on_gy_changed(v) ==
  LET nv == SliderValue(GimbalSliderMin, GimbalSliderMax, v)
  IN /\ nv # gy_slider
     /\ gy_slider' = nv
     /\ last' = [op |-> "gy_slider"]
     /\ UNCHANGED <<gx_slider, throttle_slider, trail_slider, run_ctl, run_cmd,
                    engine, state, pos_hist, logs, stage_events, playback,
                    run_finished, view_enabled, stats, outputs>>
     /\ draw_scene(status_box)

\* valueChanged of the throttle slider: labels only.
on_throttle_changed(v) ==
  LET nv == SliderValue(ThrottleSliderMin, ThrottleSliderMax, v)
  IN /\ nv # throttle_slider
     /\ throttle_slider' = nv
     /\ last' = [op |-> "throttle_slider"]
     /\ UNCHANGED <<gx_slider, gy_slider, trail_slider, run_ctl, run_cmd,
                    engine, state, pos_hist, logs, stage_events, playback,
                    run_finished, view_enabled, status_box, tb_pred, stats,
                    outputs>>

\* valueChanged of the trail slider: its label only.
on_trail_changed(v) ==
  LET nv == SliderValue(TrailSliderMin, TrailSliderMax, v)
  IN /\ nv # trail_slider
     /\ trail_slider' = nv
     /\ last' = [op |-> "trail_slider"]
     /\ UNCHANGED <<gx_slider, gy_slider, throttle_slider, run_ctl, run_cmd,
                    engine, state, pos_hist, logs, stage_events, playback,
                    run_finished, view_enabled, status_box, tb_pred, stats,
                    outputs>>

\* _apply_preset(gx, gy, throttle): three setValue calls (a gimbal slider that
\* changes redraws the scene), then the status line.
apply_preset(gx, gy, throttle) ==
  LET nx == SliderValue(GimbalSliderMin, GimbalSliderMax, gx)
      ny == SliderValue(GimbalSliderMin, GimbalSliderMax, gy)
      nt == SliderValue(ThrottleSliderMin, ThrottleSliderMax, throttle)
      drawn == nx # gx_slider \/ ny # gy_slider
  IN /\ gx_slider' = nx
     /\ gy_slider' = ny
     /\ throttle_slider' = nt
     /\ last' = [op |-> "preset"]
     /\ UNCHANGED <<trail_slider, run_ctl, run_cmd, engine, state, pos_hist,
                    logs, stage_events, playback, run_finished, view_enabled,
                    stats, outputs>>
     /\ status_box' = (IF drawn THEN SetPlainText(status_box) ELSE status_box)
                         \cup {"preset"}
     /\ tb_pred' = IF drawn THEN DrawnThrust(running', nx, ny, sim_T') ELSE tb_pred

\* ------------------------------------------------------------ Start / Pause
\* The command captured from the sliders: radians of value / 10, value / 100.
CaptureCommand(gx, gy, thr) == <<Radians(gx), Radians(gy), thr>>

\* _on_start: toggles running; when it becomes true captures the sliders and
\* starts the timer, otherwise stops the timer.
on_start ==
  LET cmd == CaptureCommand(gx_slider, gy_slider, throttle_slider)
  IN /\ running' = ~running
     /\ IF ~running
          THEN /\ run_gimbal_x' = cmd[1]
               /\ run_gimbal_y' = cmd[2]
               /\ run_throttle' = cmd[3]
               /\ start_cmd' = <<gx_slider, gy_slider, throttle_slider>>
               /\ status_box' = status_box \cup {"run"} \cup
                    (IF Len(run_log_times) = 0 THEN {"tip_arrow"} ELSE {})
               /\ start_btn' = "Pause"
               /\ timer_active' = TRUE
          ELSE /\ start_btn' = "Start"
               /\ timer_active' = FALSE
               /\ UNCHANGED <<run_gimbal_x, run_gimbal_y, run_throttle,
                              start_cmd, status_box>>
     /\ stopped' = FALSE
     /\ last' = [op |-> "start"]
     /\ UNCHANGED <<sliders, engine, state, pos_hist, logs, stage_events,
                    playback, run_finished, view_enabled, tb_pred, stats,
                    outputs>>

\* -------------------------------------------------------------- the tick
\* max(0.2, throttle), in hundredths.
ThrottleClamped(throttle) == Max(MinThrottlePct, throttle)

\* Mutant of BaseThrust: the base thrust re-read from sim.T on every tick.
BaseThrustRestored(has, base, T) == T

\* self.base_T after the hasattr test of a tick that finds sim.T = T # 0.
BaseThrust(has, base, T) == IF has THEN base ELSE T

\* self.sim.T after the throttle block of a tick.
TickThrust(T, has, base, throttle) ==
  IF T # 0
    THEN (BaseThrust(has, base, T) * ThrottleClamped(throttle)) \div 100
    ELSE T

\* Mutant of IsImpact: the altitude tested against the ground, not the epsilon.
IsImpactAtGround(s) == s.pos[3] <= 0 /\ NormExceeds(s.vel, ImpactSpeed)

\* The hard-impact test on the integrator's result.
IsImpact(s) == s.pos[3] <= ImpactAlt /\ NormExceeds(s.vel, ImpactSpeed)

\* Mutant of GroundContact: the altitude clamped, the velocity kept.
GroundContactKeepsVelocity(s) ==
  IF IsImpact(s) THEN s
  ELSE IF s.pos[3] <= 0 THEN [s EXCEPT !.pos[3] = 0]
  ELSE s

\* The state stored by a tick whose integration returned s.
GroundContact(s) ==
  IF IsImpact(s) THEN s
  ELSE IF s.pos[3] <= 0 THEN [s EXCEPT !.pos[3] = 0, !.vel = Zero3]
  ELSE s

\* Mutant of NextTime: every tick logs dt.
NextTimeRestart(times) == 1

\* The time logged by a tick, in units of dt.
NextTime(times) == IF Len(times) > 0 THEN times[Len(times)] + 1 ELSE 1

\* Mutant of TickCommand: the sliders read at every tick.
TickCommandLive == CaptureCommand(gx_slider, gy_slider, throttle_slider)

\* gx, gy and throttle of a tick: the captured run settings.
TickCommand == <<run_gimbal_x, run_gimbal_y, run_throttle>>

\* The rest of _step_sim once the integrator has returned ret for the command
\* cmd and thrust T1, and the ground-contact policy has produced st.
step_record(cmd, T1, ret, st) ==
  /\ sim_T' = T1
  /\ has_base_T' = (has_base_T \/ sim_T # 0)
  /\ base_T' = IF sim_T # 0 THEN BaseThrust(has_base_T, base_T, sim_T)
               ELSE base_T
  /\ state' = st
  /\ max_altitude' = Max(max_altitude, ret.pos[3])
  /\ max_velocity' = Max(max_velocity, Norm3(ret.vel))
  /\ total_distance' = total_distance +
       Norm3(<<ret.pos[1] - prev_pos[1], ret.pos[2] - prev_pos[2],
               ret.pos[3] - prev_pos[3]>>)
  /\ prev_pos' = ret.pos
  /\ IF IsImpact(ret)
       THEN running' = FALSE /\ timer_active' = FALSE /\ start_btn' = "Start"
       ELSE UNCHANGED run_ctl
  /\ pos_hist' = LastN(Append(pos_hist, st.pos), trail_slider)
  /\ run_log_states' = LastN(Append(run_log_states, st), trail_slider * 4)
  /\ run_log_times' = Append(run_log_times, NextTime(run_log_times))
  /\ impacted' = (impacted \/ IsImpact(ret))
  /\ recorded' = Append(recorded, [t |-> Len(recorded) + 1, st |-> st])
  /\ last' = [op |-> "step", cmd |-> cmd, T |-> T1, ret |-> ret,
              impact |-> IsImpact(ret),
              running0 |-> running, timer0 |-> timer_active]
  /\ UNCHANGED <<sliders, run_cmd, stage_events, playback, run_finished,
                 view_enabled, outputs>>

\* _step_sim with the command and thrust of this tick and the integrator's
\* result ret.
step_integrated(cmd, T1, ret) == step_record(cmd, T1, ret, GroundContact(ret))

\* _step_sim with the command and thrust of this tick: one rk4_step.
step_thrust(cmd, T1) ==
  step_integrated(cmd, T1, rk4_step(state, cmd[1], cmd[2], T1))

\* _step_sim for the command cmd: sim.T from the throttle, then the rest.
step_cmd(cmd) ==
  step_thrust(cmd, TickThrust(sim_T, has_base_T, base_T, cmd[3]))

\* _step_sim: thrust from the captured throttle, one rk4_step with the
\* captured gimbal, statistics, ground contact, logging, trimming.
step_sim == step_cmd(TickCommand)

\* What the status box shows when _step_sim returns: an impact appends the
\* impact message and a tip.
StepStatus(box, impact) ==
  IF impact THEN box \cup {"impact", "tip_gentle"} ELSE box

\* _on_step (Step button, S key, timer timeout): _step_sim, then _draw_scene,
\* whose setPlainText replaces what the tick appended to the status box.
on_step ==
  /\ step_sim
  /\ draw_scene(StepStatus(status_box, last'.impact))

\* ------------------------------------------------------------------ Reset
\* _on_reset: a new state vector, the sliders back to their defaults, the
\* log, the stage events and the statistics cleared, then _draw_scene.
on_reset ==
  /\ state' = ResetState
  /\ pos_hist' = <<ResetState.pos>>
  /\ gx_slider' = SliderValue(GimbalSliderMin, GimbalSliderMax, 0)
  /\ gy_slider' = SliderValue(GimbalSliderMin, GimbalSliderMax, 0)
  /\ throttle_slider' = SliderValue(ThrottleSliderMin, ThrottleSliderMax, 100)
  /\ trail_slider' = SliderValue(TrailSliderMin, TrailSliderMax, TrailDefault)
  /\ run_log_states' = <<>>
  /\ run_log_times' = <<>>
  /\ impacted' = FALSE
  /\ recorded' = <<>>
  /\ stage_events' = <<>>
  /\ max_altitude' = 0
  /\ max_velocity' = 0
  /\ total_distance' = 0
  /\ prev_pos' = ResetState.pos
  /\ view_enabled' = FALSE
  /\ run_finished' = FALSE
  /\ last' = [op |-> "reset"]
  /\ UNCHANGED <<run_ctl, run_cmd, engine, playback, outputs>>
  /\ draw_scene(status_box)

\* ---------------------------------------------------------------- staging
\* Mutant of StagedMass: the drop without the clamp.
StagedMassUnclamped(m) == m - StageMassDrop

\* max(0.0, mass - 10.0).
StagedMass(m) == Max(0, m - StageMassDrop)

\* _on_stage: the mass drop, thrust to zero, the stage event, _draw_scene.
on_stage ==
  LET t == IF Len(run_log_times) > 0 THEN run_log_times[Len(run_log_times)]
           ELSE 0
  IN /\ Len(stage_events) < MaxStages
     /\ state' = [state EXCEPT !.mass = StagedMass(state.mass)]
     /\ sim_T' = 0
     /\ stage_events' = Append(stage_events, <<t, state.pos>>)
     /\ last' = [op |-> "stage"]
     /\ UNCHANGED <<sliders, run_ctl, run_cmd, has_base_T, base_T, pos_hist,
                    logs, playback, run_finished, view_enabled, stats, outputs>>
     /\ draw_scene(status_box)

\* ----------------------------------------------------------------- export
\* The data rows _on_export writes: the zipped log when both lists have the
\* same non-zero length, otherwise the current state at time 0.
ExportRows(times, states, cur) ==
  IF Len(times) > 0 /\ Len(states) = Len(times)
    THEN [i \in 1..Len(times) |-> Row(times[i], states[i])]
    ELSE <<Row(0, cur)>>

\* _on_export: the file dialog is cancelled (nothing happens) or a file is
\* written: the header, then the rows.
on_export(chosen) ==
  /\ IF chosen
       THEN /\ csv_file' = <<Header>> \o ExportRows(run_log_times, run_log_states, state)
            /\ status_box' = status_box \cup {"exported"}
       ELSE UNCHANGED <<csv_file, status_box>>
  /\ last' = [op |-> "export", chosen |-> chosen]
  /\ UNCHANGED <<sliders, run_ctl, run_cmd, engine, state, pos_hist, logs,
                 stage_events, playback, run_finished, view_enabled, tb_pred,
                 stats, table>>

\* --------------------------------------------------------------- playback
\* Mutant of WasRunning: the simulation never remembered as running.
WasRunningNever(active) == "false"

\* self.was_running = self.timer.isActive() at the start of a playback.
WasRunning(active) == IF active THEN "true" ELSE "false"

\* _on_playback: toggles the playback of the recorded run.
on_playback ==
  /\ IF Len(run_log_states) = 0
       THEN /\ status_box' = status_box \cup {"no_run"}
            /\ UNCHANGED <<run_ctl, playback>>
       ELSE IF playback_running
         THEN /\ playback_running' = FALSE
              /\ playback_timer_active' = FALSE
              /\ playback_btn' = "Play Log"
              /\ IF was_running = "true"
                   THEN timer_active' = TRUE /\ running' = TRUE /\ start_btn' = "Pause"
                   ELSE UNCHANGED run_ctl
              /\ UNCHANGED <<playback_index, was_running, pb_run0, status_box>>
         ELSE /\ playback_index' = 0
              /\ playback_running' = TRUE
              /\ playback_btn' = "Stop"
              /\ was_running' = WasRunning(timer_active)
              /\ pb_run0' = running
              /\ IF timer_active
                   THEN timer_active' = FALSE /\ running' = FALSE /\ start_btn' = "Start"
                   ELSE UNCHANGED run_ctl
              /\ playback_timer_active' = TRUE
              /\ UNCHANGED status_box
  /\ last' = [op |-> "playback",
              kind |-> IF Len(run_log_states) = 0 THEN "none"
                       ELSE IF playback_running THEN "stop" ELSE "start"]
  /\ UNCHANGED <<sliders, run_cmd, engine, state, pos_hist, logs, stage_events,
                 run_finished, view_enabled, tb_pred, stats, outputs>>

\* The trail shown at playback index i (0-based): the positions of
\* run_log_states[max(0, i - trail) : i + 1].
PlaybackTrail(states, i, trail) ==
  LET start_idx == Max(0, i - trail)
  IN [j \in 1..(i + 1 - start_idx) |-> states[start_idx + j].pos]

\* _playback_step (playback timer timeout): past the end of the log it stops
\* the playback and restarts the simulation timer if it was running; otherwise
\* it loads the logged state and its trail, and redraws.
playback_step ==
  /\ playback_timer_active
  /\ IF playback_index >= Len(run_log_states)
       THEN /\ playback_running' = FALSE
            /\ playback_timer_active' = FALSE
            /\ playback_btn' = "Play Log"
            /\ status_box' = status_box \cup {"playback_finished"}
            /\ IF was_running = "true"
                 THEN timer_active' = TRUE /\ running' = TRUE /\ start_btn' = "Pause"
                 ELSE UNCHANGED run_ctl
            /\ UNCHANGED <<sliders, engine>>
            /\ UNCHANGED <<state, pos_hist, playback_index, was_running,
                           pb_run0, tb_pred>>
       ELSE /\ state' = run_log_states[playback_index + 1]
            /\ pos_hist' = PlaybackTrail(run_log_states, playback_index, trail_slider)
            /\ playback_index' = playback_index + 1
            /\ UNCHANGED <<run_ctl, playback_timer_active, playback_running,
                           playback_btn, was_running, pb_run0>>
            /\ UNCHANGED <<sliders, engine>>
            /\ draw_scene(status_box)
  /\ last' = [op |-> "playback_step", shown |-> playback_index < Len(run_log_states)]
  /\ UNCHANGED <<run_cmd, logs, stage_events, run_finished, view_enabled, stats,
                 outputs>>

\* ------------------------------------------------------- Stop & Finalize
\* _on_stop_button: stops the timer, marks the run finished, enables the
\* View button when there is data.
on_stop_button ==
  /\ timer_active' = FALSE
  /\ running' = FALSE
  /\ start_btn' = "Start"
  /\ run_finished' = TRUE
  /\ view_enabled' = (view_enabled \/ Len(run_log_states) > 0)
  /\ status_box' = status_box \cup {"run_stopped"}
  /\ stopped' = TRUE
  /\ last' = [op |-> "stop"]
  /\ UNCHANGED <<sliders, run_gimbal_x, run_gimbal_y, run_throttle, start_cmd,
                 engine, state, pos_hist, logs, stage_events, playback, tb_pred,
                 stats, outputs>>

\* ---------------------------------------------------------- run-data view
\* The time of row i (1-based) of the run-data table and of its CSV.
TableTime(times, i) == IF i <= Len(times) THEN times[i] ELSE 0

\* The rows of _export_table_csv: one per logged state.
TableRows(times, states) ==
  [i \in 1..Len(states) |-> Row(TableTime(times, i), states[i])]

\* f"{val:.6g}": the value rounded to six significant digits.
Format6g(x) ==
  IF Abs(x) < 1000000 THEN x
  ELSE IF Abs(x) < 10000000 THEN RoundDiv(x, 10) * 10
  ELSE IF Abs(x) < 100000000 THEN RoundDiv(x, 100) * 100
  ELSE RoundDiv(x, 1000) * 1000

\* The cells of the run-data dialog: the same rows, each value formatted.
TableCells(times, states) ==
  [i \in 1..Len(states) |->
     [j \in 1..12 |-> Format6g(Row(TableTime(times, i), states[i])[j])]]

\* _show_run_data (View Run Data, enabled by Stop & Finalize): the table of
\* the recorded run; in the dialog the user may export it (_export_table_csv).
show_run_data(export) ==
  /\ view_enabled
  /\ IF Len(run_log_states) = 0
       THEN /\ status_box' = status_box \cup {"no_run_data"}
            /\ UNCHANGED outputs
       ELSE /\ table' = <<Header>> \o TableCells(run_log_times, run_log_states)
            /\ IF export
                 THEN /\ csv_file' = <<Header>> \o TableRows(run_log_times, run_log_states)
                      /\ status_box' = status_box \cup {"exported_run"}
                 ELSE UNCHANGED <<csv_file, status_box>>
  /\ last' = [op |-> "view", export |-> export /\ Len(run_log_states) > 0]
  /\ UNCHANGED <<sliders, run_ctl, run_cmd, engine, state, pos_hist, logs,
                 stage_events, playback, run_finished, view_enabled, tb_pred,
                 stats>>

\* --------------------------------------------------------------------- help
\* _show_help: the dialog, then the altitude and velocity maxima are zeroed.
show_help ==
  /\ max_altitude' = 0
  /\ max_velocity' = 0
  /\ last' = [op |-> "help"]
  /\ UNCHANGED <<sliders, run_ctl, run_cmd, engine, state, pos_hist, logs,
                 stage_events, playback, run_finished, view_enabled, status_box,
                 tb_pred, total_distance, prev_pos, outputs>>

\* ------------------------------------------------------------ specification
\* One UI event: a handler runs to completion on the GUI thread.
Event == nops < MaxOps /\ nops' = nops + 1

MoveGx == \E v \in GxMoves : Event /\ on_gx_changed(v)
MoveGy == \E v \in GyMoves : Event /\ on_gy_changed(v)
MoveThrottle == \E v \in ThrottleMoves : Event /\ on_throttle_changed(v)
MoveTrail == \E v \in TrailMoves : Event /\ on_trail_changed(v)
PresetHover == Event /\ apply_preset(0, 0, 60)
PresetRight == Event /\ apply_preset(-400, 0, 100)
PresetLeft == Event /\ apply_preset(400, 0, 100)
PresetAscent == Event /\ apply_preset(0, 0, 100)
Start == Event /\ on_start
StepButton == Event /\ Len(run_log_times) < MaxTicks /\ on_step
TimerTimeout ==
  Event /\ timer_active /\ Len(run_log_times) < MaxTicks /\ on_step
Reset == Event /\ on_reset
Stage == Event /\ on_stage
Export == \E chosen \in BOOLEAN : Event /\ on_export(chosen)
Playback == Event /\ on_playback
PlaybackTimeout == Event /\ playback_step
Stop == Event /\ on_stop_button
ViewRunData == \E export \in BOOLEAN : Event /\ show_run_data(export)
Help == Event /\ show_help

Next ==
  \/ MoveGx \/ MoveGy \/ MoveThrottle \/ MoveTrail
  \/ PresetHover \/ PresetRight \/ PresetLeft \/ PresetAscent
  \/ Start \/ StepButton \/ TimerTimeout \/ Reset \/ Stage
  \/ Export \/ Playback \/ PlaybackTimeout \/ Stop \/ ViewRunData \/ Help

Spec == Init /\ [][Next]_vars

\* ------------------------------------------------- a long recording
\* The session after the throttle slider was dragged to 0, the trail slider to
\* its minimum and Start was pressed: the run that follows flies at the
\* minimum thrust and its log is trimmed after 4 * TrailSliderMin states.
LogInit ==
  /\ gx_slider = 0 /\ gy_slider = 0
  /\ throttle_slider = ThrottleSliderMin
  /\ trail_slider = TrailSliderMin
  /\ running = TRUE /\ timer_active = TRUE /\ start_btn = "Pause"
  /\ run_gimbal_x = 0 /\ run_gimbal_y = 0 /\ run_throttle = ThrottleSliderMin
  /\ sim_T = SimT0 /\ has_base_T = FALSE /\ base_T = 0
  /\ state = InitState
  /\ pos_hist = <<InitState.pos>>
  /\ run_log_states = <<>> /\ run_log_times = <<>>
  /\ stage_events = <<>>
  /\ playback_timer_active = FALSE /\ playback_index = 0
  /\ playback_running = FALSE /\ playback_btn = "Play Log"
  /\ was_running = "unset"
  /\ pb_run0 = FALSE
  /\ run_finished = FALSE /\ view_enabled = FALSE
  /\ status_box = SetPlainText({}) \cup {"welcome", "tip_presets", "run", "tip_arrow"}
  /\ tb_pred = DrawnThrust(FALSE, 0, 0, SimT0)
  /\ max_altitude = 0 /\ max_velocity = 0 /\ total_distance = 0
  /\ prev_pos = Zero3
  /\ csv_file = <<>> /\ table = <<>>
  /\ start_cmd = <<0, 0, ThrottleSliderMin>>
  /\ stopped = FALSE
  /\ last = [op |-> "start"]
  /\ impacted = FALSE
  /\ recorded = <<>>
  /\ nops = 3

\* A timeout of the simulation timer during the recording.
LogTick ==
  /\ timer_active
  /\ Len(run_log_times) < MaxLogTicks
  /\ on_step
  /\ UNCHANGED nops

\* A timeout of the playback timer.
LogPlaybackTimeout == playback_step /\ UNCHANGED nops

LogNext ==
  \/ LogTick \/ LogPlaybackTimeout
  \/ MoveTrail \/ Reset \/ Export \/ Playback \/ Stop \/ ViewRunData

LogSpec == LogInit /\ [][LogNext]_vars

\* ================================================================= claims
\* What the integrator returned at the last tick met the hard-impact test.
RetIsImpact ==
  last.ret.pos[3] <= ImpactAlt /\ NormExceeds(last.ret.vel, ImpactSpeed)

\* C1: after a tick (timer timeout, Step button or S key) whose integrated
\* altitude is <= 0.1 m and whose speed is > 5 m/s, the running flag is false
\* and the simulation timer is inactive when the handler returns.
C1_ImpactStopsRun ==
  (last.op = "step" /\ RetIsImpact) => (~running /\ ~timer_active)

\* C1 witness: a timer tick of a running session was a hard impact.
C1_Witness ==
  /\ last.op = "step" /\ RetIsImpact
  /\ last.running0 /\ last.timer0
  /\ ~running /\ ~timer_active

\* C2: once a tick has been classified as a hard impact, no later tick
\* advances the vehicle state or appends to the run log until Reset.
C2_ImpactIsTerminal ==
  [][ (impacted /\ last'.op = "step")
        => /\ state' = state
           /\ run_log_states' = run_log_states
           /\ run_log_times' = run_log_times ]_vars

\* C3: after a tick whose integrated altitude is <= 0 and that is no impact,
\* the stored altitude is 0 and the stored velocity is zero, x/y, attitude,
\* angular velocity and mass are the integrator's, and the running flag and
\* the timer are as before the tick; a tick whose integrated altitude is
\* above 0.1 m stores exactly what the integrator returned.
C3_SoftLanding ==
  /\ (last.op = "step" /\ ~RetIsImpact /\ last.ret.pos[3] <= 0)
       => /\ state.pos = <<last.ret.pos[1], last.ret.pos[2], 0>>
          /\ state.vel = Zero3
          /\ state.q = last.ret.q
          /\ state.w = last.ret.w
          /\ state.mass = last.ret.mass
          /\ running = last.running0
          /\ timer_active = last.timer0
  /\ (last.op = "step" /\ last.ret.pos[3] > ImpactAlt) => state = last.ret

\* C3 witness: a running tick integrated to below the ground with a non-zero
\* velocity, and the session still runs.
C3_Witness ==
  /\ last.op = "step" /\ ~RetIsImpact
  /\ last.ret.pos[3] < 0 /\ last.ret.vel # Zero3
  /\ state.pos[3] = 0 /\ state.vel = Zero3
  /\ running /\ timer_active

\* C4: a staging event sets mass to max(0, mass - 10), so mass is never
\* negative, sets the engine thrust to 0 and leaves position, velocity,
\* attitude and angular velocity unchanged.
C4_StagingFrame ==
  [][ last'.op = "stage"
        => /\ state'.mass = (IF state.mass >= StageMassDrop
                               THEN state.mass - StageMassDrop ELSE 0)
           /\ state'.mass >= 0
           /\ sim_T' = 0
           /\ state'.pos = state.pos
           /\ state'.vel = state.vel
           /\ state'.q = state.q
           /\ state'.w = state.w ]_vars

\* C4 witness: a staging in flight hit the clamp (5 kg left, 10 kg dropped).
C4_Witness ==
  /\ last.op = "stage"
  /\ Len(stage_events) = 2
  /\ state.mass = 0
  /\ state.pos # Zero3 /\ state.vel # Zero3
  /\ sim_T = 0

\* C5: apart from Reset and staging, no session operation other than the
\* tick changes any field of the vehicle state.
C5_OnlyTickMutatesState ==
  [][ last'.op \notin {"step", "reset", "stage"} => state' = state ]_vars

\* C6: Reset produces the vehicle state of the session start, attitude
\* quaternion included.
C6_ResetIsInitialState ==
  last.op = "reset" => state = InitState

\* C7: after a Reset the session ticks as a fresh one: the first tick after a
\* Reset, with no staging since, runs at base thrust times the clamped
\* throttle, whatever happened before the Reset.
C7_ResetRestoresThrust ==
  (last.op = "step" /\ Len(run_log_times) = 1 /\ stage_events = <<>>)
    => last.T * 100 = SimT0 * (IF last.cmd[3] < MinThrottlePct
                                 THEN MinThrottlePct ELSE last.cmd[3])

\* C8: on every tick with non-zero engine thrust the integrator's thrust is
\* base_T * max(0.2, throttle) for the base thrust of the first thrusting
\* tick: it does not compound, lies in [0.2 base_T, base_T], and is 20 % of
\* the base thrust at throttle 0.
C8_ThrustFromBase ==
  (last.op = "step" /\ last.T # 0)
    => /\ has_base_T /\ base_T = SimT0
       /\ last.cmd[3] \in 0..100
       /\ last.T * 100 = SimT0 * (IF last.cmd[3] < MinThrottlePct
                                    THEN MinThrottlePct ELSE last.cmd[3])
       /\ last.T * 100 >= MinThrottlePct * SimT0
       /\ last.T <= SimT0
       /\ sim_T = last.T

\* C8 witness: the second thrusting tick at throttle 0 runs at 20 % of base.
C8_Witness ==
  /\ last.op = "step"
  /\ Len(run_log_times) >= 2
  /\ last.cmd[3] = 0
  /\ last.T * 100 = SimT0 * MinThrottlePct

\* C9: every tick uses the gimbal angles and the throttle of the sliders at
\* the most recent Start that set the session running (0, 0, 100 % before
\* any); later slider moves, presets and Step do not change them.
C9_TickUsesStartCommand ==
  last.op = "step"
    => last.cmd = CaptureCommand(start_cmd[1], start_cmd[2], start_cmd[3])

\* C9 witness: a tick after a Start while the sliders no longer hold what
\* that Start captured.
C9_Witness ==
  /\ last.op = "step"
  /\ start_cmd # <<0, 0, 100>>
  /\ <<gx_slider, gy_slider, throttle_slider>> # start_cmd
  /\ last.cmd = CaptureCommand(start_cmd[1], start_cmd[2], start_cmd[3])

\* C10: both gimbal angles of every command passed to the integrator lie
\* within +/-60 degrees, and the gimbal sliders within [-600, 600].
C10_GimbalWithinLimit ==
  /\ gx_slider \in -600..600
  /\ gy_slider \in -600..600
  /\ last.op = "step"
       => /\ Abs(last.cmd[1]) <= Radians(600)
          /\ Abs(last.cmd[2]) <= Radians(600)

\* C10 witness: a tick at both deflection limits, after the sliders were
\* dragged past their ends.
C10_Witness ==
  /\ last.op = "step"
  /\ last.cmd[1] = Radians(600)
  /\ last.cmd[2] = -Radians(600)

\* The last handler wrote a CSV file.
WroteCsv ==
  \/ (last.op = "export" /\ last.chosen)
  \/ (last.op = "view" /\ last.export)

\* The states whose rows the file written by the last handler holds.
WrittenStates ==
  IF last.op = "view" THEN run_log_states
  ELSE IF Len(run_log_times) > 0 /\ Len(run_log_states) = Len(run_log_times)
    THEN run_log_states
    ELSE <<state>>

\* The column that carries the header name.
ColumnOf(name) == CHOOSE j \in 1..Len(Header) : Header[j] = name

\* C11: every CSV the session writes (Export CSV, the run-data dialog's
\* export) has the header t, x, y, z, vx, vy, vz, qx, qy, qz, qw, mass and
\* every data row has exactly 12 values: the time, position, velocity,
\* state[6:10] and the mass; the angular velocity is in no row.
C11_CsvColumns ==
  WroteCsv =>
    /\ csv_file[1] = <<"t", "x", "y", "z", "vx", "vy", "vz",
                       "qx", "qy", "qz", "qw", "mass">>
    /\ Len(csv_file) = 1 + Len(WrittenStates)
    /\ \A i \in 1..Len(WrittenStates) :
         LET r == csv_file[i + 1]
             st == WrittenStates[i]
         IN /\ Len(r) = 12
            /\ <<r[2], r[3], r[4]>> = st.pos
            /\ <<r[5], r[6], r[7]>> = st.vel
            /\ <<r[8], r[9], r[10], r[11]>> = st.q
            /\ r[12] = st.mass

\* C11 witness: the run-data dialog exported a log of at least two states.
C11_Witness ==
  /\ last.op = "view" /\ last.export
  /\ Len(run_log_states) >= 2
  /\ Len(csv_file) = 1 + Len(run_log_states)

\* C12: the quaternion component the constructor and Reset write as the
\* scalar part (state index 6, first of state[6:10]) is the one exported under
\* the column named qw, and the vector part is under qx, qy, qz.
C12_ScalarUnderQw ==
  WroteCsv =>
    \A i \in 1..Len(WrittenStates) :
      LET r == csv_file[i + 1]
          q == WrittenStates[i].q
      IN /\ r[ColumnOf("qw")] = q[1]
         /\ <<r[ColumnOf("qx")], r[ColumnOf("qy")], r[ColumnOf("qz")]>>
              = <<q[2], q[3], q[4]>>

IsUnitQuat(q) == Abs(QuatNormSq(q) - Unit * Unit) <= 2 * Unit

C15_ImpactShown ==
  (last.op = "step" /\ last.impact) => "impact" \in status_box

\* C16: the run log's list of states and its list of times have the same
\* length in every reachable state.
C16_LogsSameLength == Len(run_log_states) = Len(run_log_times)

\* The simulation time, in units of dt, at which the i-th state held in the
\* run log was recorded.
LoggedTime(i) == recorded[Len(recorded) - Len(run_log_states) + i].t

\* C17: Export CSV with a non-empty run log writes exactly one data row per
\* state held in the run log, in recording order, each with its own time.
C17_ExportFullLog ==
  (last.op = "export" /\ last.chosen /\ Len(run_log_states) > 0) =>
    /\ Len(csv_file) = 1 + Len(run_log_states)
    /\ \A i \in 1..Len(run_log_states) :
         csv_file[i + 1] = Row(LoggedTime(i), run_log_states[i])

\* C18: in the run-data table and in the CSV exported from it, the time of
\* each row is the simulation time at which the row's state was recorded.
C18_TableTimes ==
  (last.op = "view" /\ Len(run_log_states) > 0) =>
    \A i \in 1..Len(run_log_states) :
      /\ table[i + 1][1] = Format6g(LoggedTime(i))
      /\ last.export => csv_file[i + 1][1] = LoggedTime(i)

\* C19: each tick makes one integrator call with the fixed timestep and
\* appends one time, the previous last time plus dt (dt for the first tick
\* after construction or Reset); the logged times are strictly increasing and
\* the last one is the number of ticks since the last Reset times dt.
C19_OneStepPerTick ==
  [][ /\ last'.op = "step" =>
           /\ last'.ret = rk4_step(state, last'.cmd[1], last'.cmd[2], last'.T)
           /\ run_log_times' =
                Append(run_log_times,
                       IF Len(run_log_times) = 0 THEN 1
                       ELSE run_log_times[Len(run_log_times)] + 1)
           /\ Len(recorded') = Len(recorded) + 1
      /\ \A i \in 1..(Len(run_log_times') - 1) :
           run_log_times'[i] < run_log_times'[i + 1]
      /\ Len(run_log_times') > 0 =>
           run_log_times'[Len(run_log_times')] = Len(recorded') ]_vars

\* C19 witness: the third tick of a run, fired by the timer.
C19_Witness ==
  /\ last.op = "step" /\ last.timer0
  /\ run_log_times = <<1, 2, 3>>
  /\ Len(recorded) = 3

\* C20: after every tick and after every playback step the displayed trail
\* holds at most trail-length points, and after every tick the state log
\* holds at most 4 * trail-length states.
C20_TrailBounded ==
  /\ last.op = "step" =>
       /\ Len(pos_hist) <= trail_slider
       /\ Len(run_log_states) <= 4 * trail_slider
  /\ (last.op = "playback_step" /\ last.shown) =>
       Len(pos_hist) <= trail_slider

\* The transition just taken ended a playback: the playback button pressed
\* while it ran, or a playback timeout past the end of the log.
PlaybackEnded ==
  \/ (last.op = "playback" /\ last.kind = "stop")
  \/ (last.op = "playback_step" /\ ~last.shown)

C22_TimersExclusive == ~(timer_active /\ playback_timer_active)

\* C23: after Stop & Finalize the simulation timer stays inactive and the
\* running flag stays false until Start (or Space) is pressed again.
C23_StopStaysStopped == stopped => (~running /\ ~timer_active)

====
